---- MODULE Spec2Model ----
(***************************************************************************)
(* A model of src/index.js: the inventory service.  One Node.js process    *)
(* serves any number of requests; every handler is an async function that  *)
(* runs synchronously between two awaits, so one action of the model is    *)
(* one such synchronous stretch together with the file-system step whose   *)
(* completion it awaits.                                                   *)
(*                                                                         *)
(* The shared state is the inventory file (inventory.json), the uploads    *)
(* directory and the module-level counter nextId.  The handlers take no    *)
(* lock: the steps of different requests interleave freely.                *)
(*                                                                         *)
(* fs.promises.writeFile opens the file with flag 'w' (which truncates it) *)
(* and writes the data afterwards; the two steps are separate actions      *)
(* (WriteOpen, WriteData), and a read between them finds an empty file on  *)
(* which JSON.parse throws.  File-system calls fail only in the ways the   *)
(* program itself brings about: the parse of a truncated file and the      *)
(* unlink of a file that is not there.                                     *)
(***************************************************************************)
EXTENDS Integers, Sequences, FiniteSets

\* ---------------------------------------------------------------- bounds
\* the request slots (requests in flight at the same time)
MaxProcs == 2
\* requests accepted over one behaviour
MaxReqs == 3
\* ids the counter may hand out
MaxId == 2
\* files multer may store
MaxUploads == 2
\* process restarts
MaxRestarts == 1

Procs == 1..MaxProcs

\* ---------------------------------------------------------------- values
\* JavaScript's null (item.photo of an item without photo, line 92)
null == 0
\* JavaScript's undefined: a body field the request does not carry
undefined == "undefined"

\* falsy strings: !x is true for undefined and for ''
Truthy(x) == x # undefined /\ x # ""

RegisterNames == {undefined, "", "a"}
RegisterDescriptions == {undefined, "d"}
UpdateNames == {undefined, "", "b"}
UpdateDescriptions == {undefined, "", "e"}
\* the :id path parameters the requests carry
IdParams == 1..(MaxId + 1)

NoItem == [id |-> 0, inventory_name |-> "", description |-> "", photo |-> null]

\* the inventory file: absent, a JSON document, or an empty/unparseable file
Absent == [st |-> "absent", items |-> <<>>]
Torn == [st |-> "torn", items |-> <<>>]
Doc(list) == [st |-> "ok", items |-> list]

VARIABLES
    phase,      \* "boot" (module loaded), "listening", "crashed" (startup threw)
    file,       \* inventory.json
    blobs,      \* the files in <cache>/uploads, by filename
    uploads,    \* how many files multer has stored (its filenames are fresh)
    nextId,     \* the counter of line 57
    h,          \* the request handlers in flight, by slot
    nreq,       \* requests accepted so far
    restarts,   \* restarts so far
    last,       \* the last response sent (or handler that threw); seen is the
                \* latest success logged before the request was accepted that
                \* the request follows (see Seen)
    log,        \* history: the mutations that reported success, in order
    assigned,   \* history: the ids register assigned in this process run
    unlinkFailed,\* history: some unlink of a photo has failed
    bootIds     \* history: the ids in the document when the process started

vars == <<phase, file, blobs, uploads, nextId, h, nreq, restarts, last, log,
          assigned, unlinkFailed, bootIds>>

\* ---------------------------------------------------------------- helpers
\* list.findIndex(i => i.id === id), 1-based; 0 when there is none
FindIndex(list, id) ==
    IF \E k \in 1..Len(list) : list[k].id = id
    THEN CHOOSE k \in 1..Len(list) :
            /\ list[k].id = id
            /\ \A j \in 1..(k - 1) : list[j].id # id
    ELSE 0

\* list.splice(k, 1)
Splice(list, k) == [j \in 1..(Len(list) - 1) |-> IF j < k THEN list[j] ELSE list[j + 1]]

Ids(list) == {list[k].id : k \in 1..Len(list)}

\* Math.max(...list.map(item => item.id)), list not empty
MaxOf(S) == CHOOSE m \in S : \A x \in S : x <= m

Idle == [pc |-> "idle", op |-> "none", id |-> 0, inventory_name |-> undefined,
         description |-> undefined, file |-> null, item |-> NoItem,
         list |-> <<>>, effects |-> {}, seen |-> 0]

NoResponse == [op |-> "none", id |-> 0, inventory_name |-> undefined,
               description |-> undefined, file |-> null, res |-> "none",
               item |-> NoItem, list |-> <<>>, effects |-> {}, seen |-> 0]

\* the response of handler p: status res, with the item or list it carries
Response(r, res, item, list) ==
    [op |-> r.op, id |-> r.id, inventory_name |-> r.inventory_name,
     description |-> r.description, file |-> r.file, res |-> res,
     item |-> item, list |-> list, effects |-> r.effects, seen |-> r.seen]

Mutations == {"register", "update", "setPhoto", "delete"}
Reads == {"list", "get", "search", "getPhoto"}

Quiescent == \A p \in Procs : h[p].pc = "idle"

\* ---------------------------------------------------------------- startup
Init ==
    /\ phase = "boot"
    /\ file = Absent
    /\ blobs = {}
    /\ uploads = 0
    /\ nextId = 1
    /\ h = [p \in Procs |-> Idle]
    /\ nreq = 0
    /\ restarts = 0
    /\ last = NoResponse
    /\ log = <<>>
    /\ assigned = <<>>
    /\ unlinkFailed = FALSE
    /\ bootIds = {}

\* ensureInventoryFile: writes [] when the file is not there
EnsureInventoryFile(f) == IF f.st = "absent" THEN Doc(<<>>) ELSE f

\* a startup that counts the items instead of taking the largest id
StartupNextIdByLength(list) == Len(list) + 1

\* lines 342-345: the counter after startup, from the list read
StartupNextId(list) == IF Len(list) > 0 THEN MaxOf(Ids(list)) + 1 ELSE 1

\* the startup IIFE, lines 338-350
Startup ==
    /\ phase = "boot"
    /\ LET f == EnsureInventoryFile(file) IN
        /\ file' = f
        /\ IF f.st = "ok"
           THEN /\ nextId' = StartupNextId(f.items)
                /\ bootIds' = Ids(f.items)
                /\ phase' = "listening"
           ELSE \* JSON.parse throws: the IIFE rejects, app.listen is never called
                /\ phase' = "crashed"
                /\ UNCHANGED <<nextId, bootIds>>
    /\ UNCHANGED <<blobs, uploads, h, nreq, restarts, last, log, assigned, unlinkFailed>>

\* the process stops and is started again: the handlers in flight are gone,
\* the module is loaded anew (nextId = 1), the files stay as they are
Restart ==
    /\ phase = "listening"
    /\ restarts < MaxRestarts
    /\ restarts' = restarts + 1
    /\ phase' = "boot"
    /\ nextId' = 1
    /\ h' = [p \in Procs |-> Idle]
    /\ assigned' = <<>>
    /\ last' = NoResponse
    /\ UNCHANGED <<file, blobs, uploads, nreq, log, unlinkFailed, bootIds>>

\* ---------------------------------------------------------------- requests
Accept(p) ==
    /\ phase = "listening"
    /\ h[p].pc = "idle"
    /\ \A q \in Procs : q < p => h[q].pc # "idle"
    /\ nreq < MaxReqs
    /\ nreq' = nreq + 1

\* upload.single('photo'): multer stores the file under a fresh name
\* before the handler runs
Upload(withPhoto) == IF withPhoto THEN uploads + 1 ELSE null

\* a register that does not advance the counter
PostIncrementStuck(n) == n

\* nextId++ (line 89): the counter after the item has taken its id
PostIncrement(n) == n + 1

\* POST /register, lines 84-95: up to the await of readInventory
Register(p, name, desc, withPhoto) ==
    /\ Accept(p)
    /\ withPhoto => uploads < MaxUploads
    /\ Truthy(name) => nextId <= MaxId
    /\ LET f == Upload(withPhoto)
           r == [Idle EXCEPT !.op = "register", !.inventory_name = name,
                             !.description = desc, !.file = f,
                             !.effects = IF withPhoto THEN {"blob"} ELSE {}]
       IN
        /\ uploads' = IF withPhoto THEN uploads + 1 ELSE uploads
        /\ blobs' = IF withPhoto THEN blobs \cup {f} ELSE blobs
        /\ IF ~Truthy(name)
           THEN /\ last' = Response(r, "400", NoItem, <<>>)
                /\ UNCHANGED <<h, nextId, assigned>>
           ELSE LET item == [id |-> nextId, inventory_name |-> name,
                             description |-> IF Truthy(desc) THEN desc ELSE "",
                             photo |-> f]
                IN
                /\ nextId' = PostIncrement(nextId)
                /\ assigned' = Append(assigned, item.id)
                /\ h' = [h EXCEPT ![p] = [r EXCEPT !.pc = "read", !.item = item,
                                                   !.effects = @ \cup {"nextId"}]]
                /\ UNCHANGED last
    /\ UNCHANGED <<phase, file, restarts, log, unlinkFailed, bootIds>>

\* history: the latest success logged so far that a request op(id) follows:
\* the register of item id for get, a setPhoto of id for getPhoto, a delete of
\* id for delete; 0 when there is none
Seen(op, id) ==
    LET S == {i \in 1..Len(log) :
                \/ op = "get" /\ log[i].op = "register" /\ log[i].item.id = id
                \/ op = "getPhoto" /\ log[i].op = "setPhoto" /\ log[i].id = id
                \/ op = "delete" /\ log[i].op = "delete" /\ log[i].id = id}
    IN IF S = {} THEN 0 ELSE MaxOf(S)

\* a request that carries only an :id (and, for the photo routes, a file)
Request(p, op, id, name, desc, withPhoto) ==
    /\ Accept(p)
    /\ withPhoto => uploads < MaxUploads
    /\ LET f == Upload(withPhoto) IN
        /\ uploads' = IF withPhoto THEN uploads + 1 ELSE uploads
        /\ blobs' = IF withPhoto THEN blobs \cup {f} ELSE blobs
        /\ h' = [h EXCEPT ![p] = [Idle EXCEPT !.pc = "read", !.op = op, !.id = id,
                                   !.inventory_name = name, !.description = desc,
                                   !.file = f,
                                   !.effects = IF withPhoto THEN {"blob"} ELSE {},
                                   !.seen = Seen(op, id)]]
    /\ UNCHANGED <<phase, file, nextId, restarts, last, log, assigned, unlinkFailed, bootIds>>

\* GET /inventory, line 109
List(p) == Request(p, "list", 0, undefined, undefined, FALSE)
\* GET /inventory/:id, lines 127-129
Get(p, id) == Request(p, "get", id, undefined, undefined, FALSE)
\* PUT /inventory/:id, lines 161-163
Update(p, id, name, desc) == Request(p, "update", id, name, desc, FALSE)
\* GET /inventory/:id/photo, lines 191-193
GetPhoto(p, id) == Request(p, "getPhoto", id, undefined, undefined, FALSE)
\* PUT /inventory/:id/photo, lines 234-237
SetPhoto(p, id, withPhoto) == Request(p, "setPhoto", id, undefined, undefined, withPhoto)
\* DELETE /inventory/:id, lines 267-269
Delete(p, id) == Request(p, "delete", id, undefined, undefined, FALSE)
\* POST /search, lines 315-318
Search(p, id) == Request(p, "search", id, undefined, undefined, FALSE)

\* ---------------------------------------------------------------- steps
\* the handler of slot p ends: its response (or the exception that ended it)
Finish(p, res, item, list) ==
    /\ last' = Response(h[p], res, item, list)
    /\ h' = [h EXCEPT ![p] = Idle]

\* a mutation reports success
Succeed(p, res, item, list) ==
    /\ Finish(p, res, item, list)
    /\ log' = Append(log, Response(h[p], res, item, list))

\* readInventory resolves for the handler of slot p (op): JSON.parse of the
\* file as it is now; Throws when the file does not parse
Reading(p, op) == h[p].pc = "read" /\ h[p].op = op
Throws == file.st # "ok"

\* an await outside any try block rejects the handler: no res.* call is made
Rejected(p) ==
    /\ Finish(p, "throw", NoItem, <<>>)
    /\ UNCHANGED log

\* register, lines 95-97: the list is read, the item pushed, the write issued
RegisterRead(p) ==
    /\ Reading(p, "register")
    /\ IF Throws
       THEN Rejected(p)
       ELSE /\ h' = [h EXCEPT ![p].list = Append(file.items, h[p].item),
                              ![p].pc = "open"]
            /\ UNCHANGED <<last, log>>
    /\ UNCHANGED <<phase, file, blobs, uploads, nextId, nreq, restarts, assigned,
                   unlinkFailed, bootIds>>

\* list, line 109
ListRead(p) ==
    /\ Reading(p, "list")
    /\ IF Throws THEN Rejected(p)
       ELSE Finish(p, "200", NoItem, file.items) /\ UNCHANGED log
    /\ UNCHANGED <<phase, file, blobs, uploads, nextId, nreq, restarts, assigned,
                   unlinkFailed, bootIds>>

\* get, lines 129-133
GetRead(p) ==
    /\ Reading(p, "get")
    /\ IF Throws THEN Rejected(p)
       ELSE LET k == FindIndex(file.items, h[p].id) IN
            /\ IF k = 0 THEN Finish(p, "404", NoItem, <<>>)
                        ELSE Finish(p, "200", file.items[k], <<>>)
            /\ UNCHANGED log
    /\ UNCHANGED <<phase, file, blobs, uploads, nextId, nreq, restarts, assigned,
                   unlinkFailed, bootIds>>

\* search, lines 318-333: the response is a projection of the item found; the
\* " Photo: <name>" suffix of its description is not represented
SearchRead(p) ==
    /\ Reading(p, "search")
    /\ IF Throws THEN Rejected(p)
       ELSE LET k == FindIndex(file.items, h[p].id) IN
            /\ IF k = 0 THEN Finish(p, "404", NoItem, <<>>)
                        ELSE Finish(p, "200", file.items[k], <<>>)
            /\ UNCHANGED log
    /\ UNCHANGED <<phase, file, blobs, uploads, nextId, nreq, restarts, assigned,
                   unlinkFailed, bootIds>>

\* an update that overwrites with every field the body carries, empty or not
MergeSupplied(item, name, desc) ==
    [item EXCEPT !.inventory_name = IF name # undefined THEN name ELSE @,
                 !.description = IF desc # undefined THEN desc ELSE @]

\* an update that rebuilds the item from id, name and description only
MergeRebuilt(item, name, desc) ==
    [id |-> item.id,
     inventory_name |-> IF Truthy(name) THEN name ELSE item.inventory_name,
     description |-> IF Truthy(desc) THEN desc ELSE item.description,
     photo |-> null]

\* lines 169-170: the fields of the body that are truthy overwrite the item's
Merge(item, name, desc) ==
    [item EXCEPT !.inventory_name = IF Truthy(name) THEN name ELSE @,
                 !.description = IF Truthy(desc) THEN desc ELSE @]

\* update, lines 163-172
UpdateRead(p) ==
    /\ Reading(p, "update")
    /\ IF Throws THEN Rejected(p)
       ELSE LET k == FindIndex(file.items, h[p].id) IN
            IF k = 0
            THEN Finish(p, "404", NoItem, <<>>) /\ UNCHANGED log
            ELSE /\ h' = [h EXCEPT
                           ![p].list = [file.items EXCEPT ![k] =
                               Merge(@, h[p].inventory_name, h[p].description)],
                           ![p].pc = "open"]
                 /\ UNCHANGED <<last, log>>
    /\ UNCHANGED <<phase, file, blobs, uploads, nextId, nreq, restarts, assigned,
                   unlinkFailed, bootIds>>

\* getPhoto, lines 193-195
GetPhotoRead(p) ==
    /\ Reading(p, "getPhoto")
    /\ IF Throws THEN Rejected(p)
       ELSE LET k == FindIndex(file.items, h[p].id) IN
            IF k = 0 \/ (k # 0 /\ file.items[k].photo = null)
            THEN Finish(p, "404", NoItem, <<>>) /\ UNCHANGED log
            ELSE /\ h' = [h EXCEPT ![p].list = file.items, ![p].pc = "access"]
                 /\ UNCHANGED <<last, log>>
    /\ UNCHANGED <<phase, file, blobs, uploads, nextId, nreq, restarts, assigned,
                   unlinkFailed, bootIds>>

\* getPhoto, lines 197-205: the file is sent when it is there
GetPhotoAccess(p) ==
    /\ h[p].pc = "access"
    /\ LET item == h[p].list[FindIndex(h[p].list, h[p].id)] IN
        IF item.photo \in blobs
        THEN Finish(p, "200", item, <<>>)
        ELSE Finish(p, "404", NoItem, <<>>)
    /\ UNCHANGED <<phase, file, blobs, uploads, nextId, nreq, restarts, log, assigned,
                   unlinkFailed, bootIds>>

\* setPhoto, lines 237-245; the whole handler is in a try block (line 247)
SetPhotoRead(p) ==
    /\ Reading(p, "setPhoto")
    /\ IF Throws
       THEN Finish(p, "500", NoItem, <<>>) /\ UNCHANGED log
       ELSE LET k == FindIndex(file.items, h[p].id) IN
            IF k = 0 THEN Finish(p, "404", NoItem, <<>>) /\ UNCHANGED log
            ELSE IF h[p].file = null THEN Finish(p, "400", NoItem, <<>>) /\ UNCHANGED log
            ELSE IF file.items[k].photo # null
            THEN /\ h' = [h EXCEPT ![p].list = file.items, ![p].pc = "unlink"]
                 /\ UNCHANGED <<last, log>>
            ELSE /\ h' = [h EXCEPT
                           ![p].list = [file.items EXCEPT ![k].photo = h[p].file],
                           ![p].pc = "open"]
                 /\ UNCHANGED <<last, log>>
    /\ UNCHANGED <<phase, file, blobs, uploads, nextId, nreq, restarts, assigned,
                   unlinkFailed, bootIds>>

\* setPhoto, lines 242-245: unlink of the old photo rejects (ENOENT) when the
\* file is not there, and the catch of line 247 answers 500
SetPhotoUnlink(p) ==
    /\ h[p].pc = "unlink" /\ h[p].op = "setPhoto"
    /\ LET k == FindIndex(h[p].list, h[p].id)
           old == h[p].list[k].photo
       IN
        IF old \in blobs
        THEN /\ blobs' = blobs \ {old}
             /\ h' = [h EXCEPT ![p].list = [@ EXCEPT ![k].photo = h[p].file],
                               ![p].pc = "open",
                               ![p].effects = @ \cup {"unlink"}]
             /\ UNCHANGED <<last, log, unlinkFailed>>
        ELSE /\ Finish(p, "500", NoItem, <<>>)
             /\ unlinkFailed' = TRUE
             /\ UNCHANGED <<blobs, log>>
    /\ UNCHANGED <<phase, file, uploads, nextId, nreq, restarts, assigned, bootIds>>

\* delete, lines 269-286
DeleteRead(p) ==
    /\ Reading(p, "delete")
    /\ IF Throws THEN Rejected(p)
       ELSE LET k == FindIndex(file.items, h[p].id) IN
            IF k = 0 THEN Finish(p, "404", NoItem, <<>>) /\ UNCHANGED log
            ELSE IF file.items[k].photo # null
            THEN /\ h' = [h EXCEPT ![p].list = file.items, ![p].pc = "unlink"]
                 /\ UNCHANGED <<last, log>>
            ELSE /\ h' = [h EXCEPT ![p].list = Splice(file.items, k),
                                   ![p].pc = "open"]
                 /\ UNCHANGED <<last, log>>
    /\ UNCHANGED <<phase, file, blobs, uploads, nextId, nreq, restarts, assigned,
                   unlinkFailed, bootIds>>

\* delete, lines 276-286: a failing unlink is caught and logged (line 281)
DeleteUnlink(p) ==
    /\ h[p].pc = "unlink" /\ h[p].op = "delete"
    /\ LET k == FindIndex(h[p].list, h[p].id)
           old == h[p].list[k].photo
       IN
        /\ blobs' = blobs \ {old}
        /\ h' = [h EXCEPT ![p].list = Splice(@, k),
                          ![p].pc = "open",
                          ![p].effects = IF old \in blobs THEN @ \cup {"unlink"} ELSE @]
        /\ unlinkFailed' = (unlinkFailed \/ old \notin blobs)
    /\ UNCHANGED <<phase, file, uploads, nextId, nreq, restarts, last, log, assigned,
                   bootIds>>

\* a handler that answers as soon as the write is issued, without awaiting it
WriteOpenAnswering(p) ==
    /\ h[p].pc = "open"
    /\ file' = Torn
    /\ last' = Response(h[p], "200", NoItem, <<>>)
    /\ log' = Append(log, Response(h[p], "200", NoItem, <<>>))
    /\ h' = [h EXCEPT ![p] = Idle]
    /\ UNCHANGED <<phase, blobs, uploads, nextId, nreq, restarts, assigned,
                   unlinkFailed, bootIds>>

\* writeInventory, line 38, first half: the file is opened for writing,
\* which truncates it
WriteOpen(p) ==
    /\ h[p].pc = "open"
    /\ file' = Torn
    /\ h' = [h EXCEPT ![p].pc = "write", ![p].effects = @ \cup {"doc"}]
    /\ UNCHANGED <<phase, blobs, uploads, nextId, nreq, restarts, last, log, assigned,
                   unlinkFailed, bootIds>>

\* what the file holds once data has been written through a descriptor
\* opened before the file's present content was written: the data, or, when
\* the data is shorter than that content, the data followed by the content's
\* tail, which does not parse
Written(data) == IF file.st = "ok" THEN {Doc(data), Torn} ELSE {Doc(data)}

\* the item a successful mutation answers with
Answer(r) ==
    CASE r.op = "register" -> r.item
      [] r.op = "update" -> r.list[FindIndex(r.list, r.id)]
      [] OTHER -> NoItem

Status(op) == IF op = "register" THEN "201" ELSE "200"

\* writeInventory, second half, and the response that follows it
\* (lines 97-98, 172-173, 245-246, 286-288)
WriteData(p) ==
    /\ h[p].pc = "write"
    /\ file' \in Written(h[p].list)
    /\ Succeed(p, Status(h[p].op), Answer(h[p]), <<>>)
    /\ UNCHANGED <<phase, blobs, uploads, nextId, nreq, restarts, assigned,
                   unlinkFailed, bootIds>>

\* a request arrives
Requests ==
    \/ \E p \in Procs, name \in RegisterNames, desc \in RegisterDescriptions,
          withPhoto \in BOOLEAN : Register(p, name, desc, withPhoto)
    \/ \E p \in Procs : List(p)
    \/ \E p \in Procs, id \in IdParams : Get(p, id)
    \/ \E p \in Procs, id \in IdParams : Search(p, id)
    \/ \E p \in Procs, id \in IdParams : GetPhoto(p, id)
    \/ \E p \in Procs, id \in IdParams, name \in UpdateNames,
          desc \in UpdateDescriptions : Update(p, id, name, desc)
    \/ \E p \in Procs, id \in IdParams, withPhoto \in BOOLEAN : SetPhoto(p, id, withPhoto)
    \/ \E p \in Procs, id \in IdParams : Delete(p, id)

\* a file-system call of a handler in flight completes and the handler runs on
Steps ==
    \/ \E p \in Procs : RegisterRead(p)
    \/ \E p \in Procs : ListRead(p)
    \/ \E p \in Procs : GetRead(p)
    \/ \E p \in Procs : SearchRead(p)
    \/ \E p \in Procs : UpdateRead(p)
    \/ \E p \in Procs : GetPhotoRead(p)
    \/ \E p \in Procs : GetPhotoAccess(p)
    \/ \E p \in Procs : SetPhotoRead(p)
    \/ \E p \in Procs : SetPhotoUnlink(p)
    \/ \E p \in Procs : DeleteRead(p)
    \/ \E p \in Procs : DeleteUnlink(p)
    \/ \E p \in Procs : WriteOpen(p)
    \/ \E p \in Procs : WriteData(p)

Next == Startup \/ Restart \/ Requests \/ Steps

Spec == Init /\ [][Next]_vars

\* the service when only register and delete are requested
NextRegisterDelete ==
    \/ Startup
    \/ Restart
    \/ \E p \in Procs, name \in RegisterNames, desc \in RegisterDescriptions,
          withPhoto \in BOOLEAN : Register(p, name, desc, withPhoto)
    \/ \E p \in Procs, id \in IdParams : Delete(p, id)
    \/ \E p \in Procs : RegisterRead(p)
    \/ \E p \in Procs : DeleteRead(p)
    \/ \E p \in Procs : DeleteUnlink(p)
    \/ \E p \in Procs : WriteOpen(p)
    \/ \E p \in Procs : WriteData(p)

SpecRegisterDelete == Init /\ [][NextRegisterDelete]_vars

\* the service when every request arrives after the response to the one before
NextSerial == Startup \/ Restart \/ (Quiescent /\ Requests) \/ Steps

SpecSerial == Init /\ [][NextSerial]_vars

\* the service started over what an earlier run left: one item, registered
\* with a photo, and its file in uploads
StoredItem == [id |-> 1, inventory_name |-> "a", description |-> "d", photo |-> 1]

InitStored ==
    /\ phase = "boot"
    /\ file = Doc(<<StoredItem>>)
    /\ blobs = {StoredItem.photo}
    /\ uploads = 1
    /\ nextId = 1
    /\ h = [p \in Procs |-> Idle]
    /\ nreq = 0
    /\ restarts = 0
    /\ last = NoResponse
    /\ log = <<>>
    /\ assigned = <<>>
    /\ unlinkFailed = FALSE
    /\ bootIds = {}

\* one process run: no restart
NextRun == Startup \/ Requests \/ Steps

SpecStored == InitStored /\ [][NextRun]_vars

\* ---------------------------------------------------------------- claims
\* the successful mutations so far are all the requests there were
AllSucceeded == Len(log) = nreq
OnlyRegisters == \A k \in 1..Len(log) : log[k].op = "register"

\* C1: once N registers with non-empty names, issued against an empty store,
\* have all completed (and nothing else was requested), the document holds
\* exactly N items and their ids are exactly 1..N
C1_ConcurrentRegisters ==
    (Quiescent /\ restarts = 0 /\ phase = "listening" /\ AllSucceeded /\ OnlyRegisters)
        => /\ file.st = "ok"
           /\ Len(file.items) = Len(log)
           /\ Ids(file.items) = 1..Len(log)

\* a mutation that has read the document and has not finished writing it
InCycle(p) == h[p].op \in Mutations /\ h[p].pc \in {"unlink", "open", "write"}

\* C2: at most one mutation is between its read of the document and the
\* completion of its write
C2_OneMutationAtATime == Cardinality({p \in Procs : InCycle(p)}) <= 1

\* one mutation applied to a document, as the handler applies it when it runs
\* alone; ok is FALSE when it would not report success on that document
ApplyOne(d, m) ==
    LET k == FindIndex(d.items, m.id) IN
    CASE ~d.ok -> d
      [] m.op = "register" -> [ok |-> TRUE, items |-> Append(d.items, m.item)]
      [] k = 0 -> [ok |-> FALSE, items |-> d.items]
      [] m.op = "update" ->
            [ok |-> TRUE,
             items |-> [d.items EXCEPT ![k].inventory_name =
                                           IF Truthy(m.inventory_name)
                                           THEN m.inventory_name ELSE @,
                                       ![k].description =
                                           IF Truthy(m.description)
                                           THEN m.description ELSE @]]
      [] m.op = "setPhoto" -> [ok |-> TRUE, items |-> [d.items EXCEPT ![k].photo = m.file]]
      [] OTHER -> [ok |-> TRUE,
                   items |-> [j \in 1..(Len(d.items) - 1) |->
                                 IF j < k THEN d.items[j] ELSE d.items[j + 1]]]

RECURSIVE ApplyAll(_, _, _)
\* the mutations ms[order[1]], ms[order[2]], ... applied one at a time
ApplyAll(d, ms, order) ==
    IF order = <<>> THEN d
    ELSE ApplyAll(ApplyOne(d, ms[Head(order)]), ms, Tail(order))

Orders(n) == {o \in [1..n -> 1..n] : \A i, j \in 1..n : i # j => o[i] # o[j]}

\* C3: when mutations that all reported success have completed, the document
\* is the one some sequential order of the same mutations produces from the
\* empty document
C3_NoLostUpdates ==
    (Quiescent /\ restarts = 0 /\ phase = "listening" /\ AllSucceeded)
        => /\ file.st = "ok"
           /\ \E o \in Orders(Len(log)) :
                LET d == ApplyAll([ok |-> TRUE, items |-> <<>>], log, o) IN
                d.ok /\ d.items = file.items

\* C4: within one process run the ids register assigns are strictly increasing
\* in order of assignment, and the ids in the document are pairwise distinct
C4_IdsIncreasingAndDistinct ==
    /\ \A i, j \in 1..Len(assigned) : i < j => assigned[i] < assigned[j]
    /\ \A i, j \in 1..Len(file.items) : i # j => file.items[i].id # file.items[j].id

\* C4 witness: register, delete and register again have completed in one run
C4_Witness ==
    /\ restarts = 0 /\ Len(log) = 3
    /\ log[1].op = "register" /\ log[2].op = "delete" /\ log[3].op = "register"
    /\ Len(assigned) = 2
    /\ file.st = "ok" /\ Len(file.items) = 1

\* C5: the id the next register will assign is greater than every id a register
\* has ever returned, across deletes and restarts
C5_NeverReused ==
    phase = "listening"
        => \A k \in 1..Len(log) : log[k].op = "register" => log[k].item.id < nextId

\* C6: when no operation is in flight, every photo reference in the document
\* names a file that exists in the uploads directory
C6_NoDanglingPhoto ==
    (Quiescent /\ restarts = 0 /\ file.st = "ok")
        => \A k \in 1..Len(file.items) :
              file.items[k].photo # null => file.items[k].photo \in blobs

\* C7: provided no removal of a photo has failed, when no operation is in
\* flight every file in the uploads directory is referenced by some item
C7_NoOrphanBlobs ==
    (Quiescent /\ restarts = 0 /\ file.st = "ok" /\ ~unlinkFailed)
        => \A b \in blobs : \E k \in 1..Len(file.items) : file.items[k].photo = b

Failures == {"400", "404", "500", "throw"}

\* C8: an operation that ends in failure has changed neither the document nor
\* the uploads directory nor nextId
C8_FailureAtomicity == last.res \in Failures => last.effects = {}

\* C9: a read operation never finds an empty or partially written document
C9_NoTornRead == last.op \in Reads => last.res # "throw"

\* C10: after startup nextId is 1 when the persisted document is empty and the
\* maximum id in it plus one otherwise, and that is the id the first register
\* of the run is assigned
C10_StartupNextId ==
    phase = "listening"
        => LET first == IF assigned = <<>> THEN nextId ELSE assigned[1] IN
           IF bootIds = {} THEN first = 1
           ELSE (first - 1) \in bootIds /\ \A i \in bootIds : i < first

\* C10 witness: the first register after a restart over a non-empty document
C10_Witness ==
    /\ phase = "listening" /\ restarts = 1
    /\ bootIds # {} /\ Len(assigned) = 1
    /\ last.op = "register" /\ last.res = "201"

\* no mutation of item id has succeeded after the i-th success, and none is
\* in flight
Untouched(id, i) ==
    /\ \A j \in (i + 1)..Len(log) :
          ~(log[j].op \in {"update", "setPhoto", "delete"} /\ log[j].id = id)
    /\ \A p \in Procs :
          ~(h[p].op \in {"update", "setPhoto", "delete"} /\ h[p].id = id)

\* C11: a get(k) accepted after register(name, description) without photo
\* returned id k, with no mutation of item k since, answers 200 with id k, that
\* name, that description ('' when none was supplied) and no photo
C11_RoundTrip ==
    \A i \in 1..Len(log) :
        (/\ restarts = 0
         /\ last.op = "get" /\ i <= last.seen
         /\ log[i].op = "register" /\ log[i].item.id = last.id /\ log[i].file = null
         /\ Untouched(last.id, i))
            => /\ last.res = "200"
               /\ last.item = [id |-> last.id,
                               inventory_name |-> log[i].inventory_name,
                               description |-> IF log[i].description = undefined
                                               THEN "" ELSE log[i].description,
                               photo |-> null]

\* C12: a getPhoto(id) accepted after setPhoto(id, payload) succeeded, with no
\* mutation of the item since, is sent exactly that payload (the uploaded
\* file), and the files the item referenced before are gone
C12_PhotoRoundTrip ==
    \A i \in 1..Len(log) :
        (/\ restarts = 0
         /\ last.op = "getPhoto" /\ i <= last.seen
         /\ log[i].op = "setPhoto" /\ log[i].id = last.id
         /\ Untouched(last.id, i))
            => /\ last.res = "200"
               /\ last.item.photo = log[i].file
               /\ \A j \in 1..(i - 1) :
                     (log[j].op = "setPhoto" /\ log[j].id = last.id)
                         => log[j].file \notin blobs

\* the photo the handler of slot p is about to unlink
OldPhoto(p) == h[p].list[FindIndex(h[p].list, h[p].id)].photo

\* C13: when the unlink of delete or setPhoto finds the old photo already
\* gone, the handler does not fail: it goes on to write its change
C13_AbsentBlobNoFailure ==
    [][\A p \in Procs :
          (/\ h[p].pc = "unlink" /\ h'[p] # h[p] /\ restarts' = restarts
           /\ OldPhoto(p) \notin blobs)
              => h'[p].pc = "open"]_vars

\* C14: a delete(id) accepted after a delete of the same id reported success
\* answers 404 and changes nothing, and no id is reported deleted twice
C14_DeleteOnce ==
    /\ \A i \in 1..Len(log) :
          (/\ last.op = "delete" /\ i <= last.seen
           /\ log[i].op = "delete" /\ log[i].id = last.id)
              => last.res = "404" /\ last.effects = {}
    /\ \A i, j \in 1..Len(log) :
          (i < j /\ log[i].op = "delete" /\ log[j].op = "delete")
              => log[i].id # log[j].id

\* C19: once delete(id) has reported success, the document never again holds
\* an item with that id
C19_DeletedStaysDeleted ==
    \A i \in 1..Len(log) :
        log[i].op = "delete" => FindIndex(file.items, log[i].id) = 0

\* C15: update overwrites name and description only with values that are
\* supplied and non-empty; an absent or empty field leaves the prior value, and
\* the item answered is the merged one
C15_UpdateMerge ==
    [][\A p \in Procs :
          /\ (h[p].pc = "read" /\ h[p].op = "update" /\ h'[p].pc = "open")
                => \A k \in 1..Len(file.items) :
                      file.items[k].id = h[p].id
                          => /\ h'[p].list[k].inventory_name =
                                    IF h[p].inventory_name \in {undefined, ""}
                                    THEN file.items[k].inventory_name
                                    ELSE h[p].inventory_name
                             /\ h'[p].list[k].description =
                                    IF h[p].description \in {undefined, ""}
                                    THEN file.items[k].description
                                    ELSE h[p].description
          /\ (h[p].pc = "write" /\ h[p].op = "update" /\ h'[p].pc = "idle"
                  /\ restarts' = restarts)
                => /\ last'.res = "200"
                   /\ \E k \in 1..Len(h[p].list) :
                         h[p].list[k].id = h[p].id /\ last'.item = h[p].list[k]]_vars

\* C15 witness: an update that supplied an empty name and an empty description
\* has answered with the prior name and description
C15_Witness ==
    /\ last.op = "update" /\ last.res = "200"
    /\ last.inventory_name = "" /\ last.description = ""
    /\ last.item.inventory_name = "a" /\ last.item.description = "d"
    /\ file.st = "ok" /\ \E k \in 1..Len(file.items) : file.items[k] = last.item

\* C16: a mutation reports success only in the step in which its own write of
\* the whole document completes
C16_WriteThrough ==
    [][Len(log') > Len(log)
          => \E p \in Procs :
                /\ h[p].pc = "write" /\ "doc" \in h[p].effects
                /\ h'[p].pc = "idle"
                /\ log'[Len(log')].op = h[p].op /\ log'[Len(log')].id = h[p].id
                /\ (file' = Doc(h[p].list) \/ (file.st = "ok" /\ file' = Torn))]_vars

\* C16 witness: a delete has reported success and the document is the one it wrote
C16_Witness ==
    /\ last.op = "delete" /\ last.res = "200" /\ Len(log) = 2
    /\ log[2].op = "delete"
    /\ file = Doc(<<>>)

\* before and after differ at most in the item id: in its name and description
\* (update) or in its photo (setPhoto); same items, same order
Frame(before, after, id, op) ==
    /\ Len(after) = Len(before)
    /\ \A k \in 1..Len(before) :
          IF before[k].id = id
          THEN /\ after[k].id = id
               /\ op = "update" => after[k].photo = before[k].photo
               /\ op = "setPhoto" =>
                     /\ after[k].inventory_name = before[k].inventory_name
                     /\ after[k].description = before[k].description
          ELSE after[k] = before[k]

\* C17: the document update(id) and setPhoto(id) write differs from the
\* document they read only in the name and description, or the photo, of item
\* id, and what they write is what the file then holds
C17_Frame ==
    [][\A p \in Procs :
          (h[p].op \in {"update", "setPhoto"} /\ restarts' = restarts)
              => /\ (h[p].pc = "read" /\ h'[p].pc = "open")
                        => Frame(file.items, h'[p].list, h[p].id, h[p].op)
                 /\ (h[p].pc = "read" /\ h'[p].pc = "unlink")
                        => h'[p].list = file.items
                 /\ (h[p].pc = "unlink" /\ h'[p].pc = "open")
                        => Frame(h[p].list, h'[p].list, h[p].id, h[p].op)
                 /\ (h[p].pc = "write" /\ h'[p].pc = "idle")
                        => (file' = Doc(h[p].list) \/ (file.st = "ok" /\ file' = Torn))]_vars

\* C17 witness: an update of the first of two items has completed; the second
\* item and the first one's photo are as registered
C17_Witness ==
    /\ last.op = "update" /\ last.res = "200" /\ last.id = 1
    /\ last.inventory_name = "b"
    /\ file.st = "ok" /\ Len(file.items) = 2
    /\ file.items[1].id = 1 /\ file.items[1].inventory_name = "b"
    /\ file.items[1].photo # null
    /\ file.items[2].id = 2 /\ file.items[2].inventory_name = "a"

C20_NextIdAboveIds ==
    /\ [](phase = "listening" => \A k \in 1..Len(file.items) : file.items[k].id < nextId)
    /\ [][(phase = "listening" /\ phase' = "listening") => nextId' >= nextId]_vars

\* C20 witness: after a restart over a document with two items the counter is 3
C20_Witness ==
    /\ phase = "listening" /\ restarts = 1
    /\ file.st = "ok" /\ Len(file.items) = 2 /\ nextId = 3
====
